---- MODULE Spec2Model ----
(***************************************************************************)
(* Model of the room client in src/frontend/src/App.tsx: the connect and   *)
(* disconnect handlers, the WebSocket callbacks installed by connectToRoom *)
(* and the MediaRecorder 'dataavailable' listener that gates outbound      *)
(* audio on the loudness of the analyser window.                           *)
(*                                                                         *)
(* Every connectToRoom call that gets past getUserMedia creates one        *)
(* MediaStream and one WebSocket; the k-th such call owns conns[k], which  *)
(* holds both objects and the closure variables of that socket's onopen.   *)
(* React state (ws, wsConnected) and the ref (mediaStreamRef) are variables *)
(* of their own; room, the text of the room input, is an input of the      *)
(* click on Connect.  Handlers run to completion on the event loop, so     *)
(* each is one action; the only suspension points are the await on         *)
(* getUserMedia and the promise of data.arrayBuffer().                     *)
(*                                                                         *)
(* connectToRoom and disconnectFromRoom are modelled as the operations     *)
(* they are, callable in every state.  The `disabled` attributes of the    *)
(* two buttons (App.tsx:188-195) read wsConnected, which nothing ever sets *)
(* to true: Connect is enabled in every state, as here; Disconnect would   *)
(* never be, and the handler is checked for every state it can be called   *)
(* in all the same.                                                        *)
(***************************************************************************)
EXTENDS Integers, Sequences, FiniteSets, TLC

VARIABLES
    ws,              \* useState<WebSocket|null>  App.tsx:43, 0 is null, else an index of conns
    wsConnected,     \* useState<boolean>(false)  App.tsx:44
    mediaStreamRef,  \* useRef<MediaStream|null>  App.tsx:45, 0 is null, else an index of conns
    pendingMic,      \* number of connectToRoom calls suspended at `await getUserMedia`
    conns,           \* the streams/sockets created so far, in creation order
    chunks,          \* the chunks that got a reading so far, in delivery order
    pending,         \* chunks whose data.arrayBuffer() promise has not resolved yet
    sent             \* chunks passed to socket.send, in call order

vars == <<ws, wsConnected, mediaStreamRef, pendingMic, conns, chunks,
          pending, sent>>

----------------------------------------------------------------------------
(* Bounds of the model *)

MaxSockets == 2      \* connectToRoom calls that may get past the room check
MaxChunks == 1       \* chunks that get a reading in a run of Spec
MaxTicks == 4        \* chunks that get a reading in a run of TalkSpec

(* Program constants *)

threshold == 10      \* App.tsx:84
fftSize == 512       \* App.tsx:80

Rooms == { <<>>, <<" ">>, <<"a">> }

\* Analyser windows are drawn constant: every byte of dataArray is the same
\* sample.  128 is silence; the others have rms 3, 5, 10, 15 and 20.
Samples == {138, 143}
TalkSamples == {131, 133, 138, 143, 148}

Sizes == {0, 1}      \* data.size of a recorded chunk

Payloads == { "{\"type\":\"ws_handshake_status\",\"status\":\"Connected\"}",
              "{\"type\":\"bogus\"}",
              "not json" }

----------------------------------------------------------------------------
(* Pure helpers *)

IsSpace(c) == c = " "

RECURSIVE TrimStart(_)
TrimStart(s) ==
    IF s # <<>> /\ IsSpace(Head(s)) THEN TrimStart(Tail(s)) ELSE s

RECURSIVE TrimEnd(_)
TrimEnd(s) ==
    IF s # <<>> /\ IsSpace(s[Len(s)]) THEN TrimEnd(SubSeq(s, 1, Len(s) - 1)) ELSE s

\* String.prototype.trim
Trim(s) == TrimEnd(TrimStart(s))

\* RoomIsBlank without the trim: `!room`
RoomIsEmpty(r) == r = <<>>

\* `!room.trim()`: the empty string is the only falsy string
RoomIsBlank(r) == Trim(r) = <<>>

\* new Uint8Array(analyser.fftSize) filled by getByteTimeDomainData
Window(sample) == [i \in 1..fftSize |-> sample]

\* for (const element of dataArray) { const v = element - 128; sum += v * v }
\* over dataArray[lo..hi], summed by halves to keep the recursion shallow
RECURSIVE SumSquares(_, _, _)
SumSquares(dataArray, lo, hi) ==
    IF lo > hi THEN 0
    ELSE IF lo = hi THEN LET v == dataArray[lo] - 128 IN v * v
    ELSE LET mid == (lo + hi) \div 2
         IN  SumSquares(dataArray, lo, mid) + SumSquares(dataArray, mid + 1, hi)

\* Math.sqrt on a perfect square
ISqrt(n) == CHOOSE r \in 0..128 : r * r <= n /\ n < (r + 1) * (r + 1)

\* Math.sqrt(sum / dataArray.length); exact for the constant windows drawn here
Rms(dataArray) ==
    ISqrt(SumSquares(dataArray, 1, Len(dataArray)) \div Len(dataArray))

\* the reading of each window the model draws, computed once
RmsOf == [s \in Samples \cup TalkSamples |-> Rms(Window(s))]

\* IsLoud with the comparison made inclusive
IsLoudInclusive(rms) == rms >= threshold

\* `rms > threshold`
IsLoud(rms) == rms > threshold

----------------------------------------------------------------------------
(* State *)

\* What one connectToRoom call creates once getUserMedia resolves: `stream`
\* (its tracks, and the `recorder` property onopen tacks onto a stream) and
\* `socket` (its readyState), plus the closure state of that socket's onopen:
\* the MediaRecorder it builds over `stream` and the local `isTalking`.
\*   track     "live" | "ended"            the stream's audio track
\*   recorder  0 | index of conns          (stream as any).recorder, named by
\*                                         the socket whose onopen built it
\*   rec       "none"       onopen has not run, no MediaRecorder exists
\*             "recording"  MediaRecorder.state = recording
\*             "flushing"   state = inactive, the final dataavailable is queued
\*             "inactive"   state = inactive, nothing queued
NewConn == [readyState |-> "CONNECTING", track |-> "live", recorder |-> 0,
            rec |-> "none", isTalking |-> FALSE]

Socks == 1..Len(conns)

Init ==
    /\ ws = 0
    /\ wsConnected = FALSE
    /\ mediaStreamRef = 0
    /\ pendingMic = 0
    /\ conns = <<>>
    /\ chunks = <<>>
    /\ pending = {}
    /\ sent = <<>>

----------------------------------------------------------------------------
(* connectToRoom *)

\* connectToRoom up to its await, clicked with `room` in the room input (the
\* input's onChange keeps the state equal to its text, and only this handler
\* reads it): the room check, then getUserMedia is called and the function
\* suspends.  Nothing in it looks at ws or wsConnected.
ConnectToRoom(room) ==
    /\ IF RoomIsBlank(room)
         THEN pendingMic' = pendingMic                    \* alert(...); return
         ELSE /\ Len(conns) + pendingMic < MaxSockets
              /\ pendingMic' = pendingMic + 1
    /\ UNCHANGED <<ws, wsConnected, mediaStreamRef, conns, chunks,
                   pending, sent>>

\* connectToRoom from the await on, ran over the streams and sockets `cs` with
\* `w` in the handle: what it leaves in conns, in mediaStreamRef.current and
\* in ws.  It reads neither the handle nor the ref, it only writes them.
Resume(cs, w) ==
    [conns |-> Append(cs, NewConn), ref |-> Len(cs) + 1, ws |-> Len(cs) + 1]

\* getUserMedia resolves: the rest of connectToRoom runs.  The stream goes
\* into the ref, a WebSocket is constructed (readyState CONNECTING), the four
\* callbacks are installed and setWs(socket) stores the handle.
MicGranted ==
    /\ pendingMic > 0
    /\ pendingMic' = pendingMic - 1
    /\ conns' = Resume(conns, ws).conns
    /\ mediaStreamRef' = Resume(conns, ws).ref
    /\ ws' = Resume(conns, ws).ws
    /\ UNCHANGED <<wsConnected, chunks, pending, sent>>

\* MicDenied with the rejection caught and ignored: the rest of connectToRoom
\* runs, over a stream with no live track
MicDeniedCaught ==
    /\ pendingMic > 0
    /\ pendingMic' = pendingMic - 1
    /\ conns' = Append(conns, [NewConn EXCEPT !.track = "ended"])
    /\ mediaStreamRef' = Len(conns) + 1
    /\ ws' = Len(conns) + 1
    /\ UNCHANGED <<wsConnected, chunks, pending, sent>>

\* getUserMedia rejects: the await throws and connectToRoom ends there.
MicDenied ==
    /\ pendingMic > 0
    /\ pendingMic' = pendingMic - 1
    /\ UNCHANGED <<ws, wsConnected, mediaStreamRef, conns, chunks,
                   pending, sent>>

----------------------------------------------------------------------------
(* socket.onopen *)

\* The transport of conns[s] opens and its onopen runs: isTalking = false, a
\* MediaRecorder over the closure's `stream` is built and started, and it is
\* stored as the `recorder` property of whatever stream the ref holds now.
OnOpen(cs, s, ref) ==
    LET opened == [cs EXCEPT ![s].readyState = "OPEN",
                             ![s].isTalking = FALSE,
                             ![s].rec = "recording"]
    IN  [opened EXCEPT ![ref].recorder = s]

SocketOpen(s) ==
    /\ conns[s].readyState = "CONNECTING"
    /\ conns' = OnOpen(conns, s, mediaStreamRef)
    /\ UNCHANGED <<ws, wsConnected, mediaStreamRef, pendingMic, chunks,
                   pending, sent>>

----------------------------------------------------------------------------
(* socket.onmessage *)

\* The state a handler reads and writes, as a value: st.conns, st.ws and
\* st.wsConnected, with st.ops, the calls the handler has made, in order,
\* and st.thrown, set when an exception has ended it.
Session == [conns |-> conns, ws |-> ws, wsConnected |-> wsConnected,
            ops |-> <<>>, thrown |-> FALSE]

\* HandleMessage with the payload parsed first: JSON.parse(event.data) throws
\* a SyntaxError on text that is not JSON
HandleMessageParsed(st, s, data) ==
    IF data = "not json" THEN [st EXCEPT !.thrown = TRUE] ELSE st

\* console.log('Message from server:', event.data) and nothing else
HandleMessage(st, s, data) == st

\* conns[s] delivers the text frame `data`
OnMessage(s, data) ==
    LET st == HandleMessage(Session, s, data)
    IN  /\ conns[s].readyState = "OPEN"
        /\ conns' = st.conns
        /\ ws' = st.ws
        /\ wsConnected' = st.wsConnected
        /\ UNCHANGED <<mediaStreamRef, pendingMic, chunks, pending, sent>>

----------------------------------------------------------------------------
(* socket.onclose, socket.onerror *)

\* OnClose as a handler that only logs (the onclose of src/unnamed/part_000)
OnCloseLogOnly(s) == UNCHANGED <<ws, wsConnected>>

\* setWsConnected(false); setWs(null)
OnClose(s) == ws' = 0 /\ wsConnected' = FALSE

\* console.error only
OnError(s) == TRUE

\* The connection of conns[s] closes cleanly: readyState becomes CLOSED and
\* the close event is fired.
SocketClose(s) ==
    /\ conns[s].readyState \in {"OPEN", "CLOSING"}
    /\ conns' = [conns EXCEPT ![s].readyState = "CLOSED"]
    /\ OnClose(s)
    /\ UNCHANGED <<mediaStreamRef, pendingMic, chunks, pending, sent>>

\* The connection of conns[s] fails (the open fails, or a fault later on): in
\* one task readyState becomes CLOSED, the error event is fired and then the
\* close event.
SocketFail(s) ==
    /\ conns[s].readyState \in {"CONNECTING", "OPEN", "CLOSING"}
    /\ conns' = [conns EXCEPT ![s].readyState = "CLOSED"]
    /\ OnError(s)
    /\ OnClose(s)
    /\ UNCHANGED <<mediaStreamRef, pendingMic, chunks, pending, sent>>

----------------------------------------------------------------------------
(* The connection state the session shows, read off the program's state *)

ConnState ==
    IF ws = 0 THEN "Disconnected"
    ELSE IF conns[ws].readyState = "CONNECTING" THEN "Connecting"
    ELSE IF wsConnected THEN "Active"
    ELSE "AwaitingHandshake"

----------------------------------------------------------------------------
(* recorder 'dataavailable' listener *)

\* the first test of the listener
Gate(size, readyState) == size > 0 /\ readyState = "OPEN"

\* NextTalking without the else-if branch that clears isTalking
NextTalkingSticky(isTalking, rms) ==
    IF IsLoud(rms) THEN TRUE ELSE isTalking

\* isTalking after the if / else if / else on rms
NextTalking(isTalking, rms) ==
    IF IsLoud(rms) THEN TRUE
    ELSE IF isTalking THEN FALSE
    ELSE isTalking

\* the lines the listener logs on this tick, in order
TalkLog(isTalking, rms) ==
    IF IsLoud(rms) THEN (IF ~isTalking THEN <<"Talking started">> ELSE <<>>)
    ELSE IF isTalking THEN <<"Idle (no speech)">>
    ELSE <<"not talking">>

\* Converts with the conversion moved inside `if (!isTalking)`
ConvertsOnStartOnly(isTalking, rms) == IsLoud(rms) /\ ~isTalking

\* whether the listener calls data.arrayBuffer().then(socket.send)
Converts(isTalking, rms) == IsLoud(rms)

\* The recorder of conns[s] delivers a chunk of `size` bytes while the analyser
\* window holds `sample`.  A chunk that fails the first test is not looked at:
\* no reading is taken, nothing is logged and isTalking is left alone, so
\* `chunks` keeps the chunks that passed the test.  A recorder that has been
\* stopped delivers its last chunk and is then idle.
ChunkReady(s, size, sample) ==
    LET c == conns[s]
        gate == Gate(size, c.readyState)
        rms == RmsOf[sample]
        now == IF gate THEN NextTalking(c.isTalking, rms) ELSE c.isTalking
        queued == gate /\ Converts(c.isTalking, rms)
        id == Len(chunks) + 1
    IN  /\ c.rec \in {"recording", "flushing"}
        /\ chunks' = IF gate
                       THEN Append(chunks,
                              [sock |-> s, rms |-> rms, was |-> c.isTalking,
                               now |-> now, log |-> TalkLog(c.isTalking, rms),
                               conn |-> ConnState, queued |-> queued])
                       ELSE chunks
        /\ conns' = [conns EXCEPT ![s].isTalking = now,
                                  ![s].rec = IF @ = "flushing" THEN "inactive" ELSE @]
        /\ pending' = IF queued THEN pending \cup {id} ELSE pending
        /\ UNCHANGED <<ws, wsConnected, mediaStreamRef, pendingMic, sent>>

\* The arrayBuffer() promise of chunk c resolves and its continuation calls
\* socket.send(buffer) on the socket of the closure (the socket was OPEN when
\* the chunk was read, so send does not throw; on a socket that is CLOSING or
\* CLOSED by now it returns without sending).
ConversionDone(c) ==
    /\ c \in pending
    /\ pending' = pending \ {c}
    /\ sent' = Append(sent, c)
    /\ UNCHANGED <<ws, wsConnected, mediaStreamRef, pendingMic, conns,
                   chunks>>

\* A MediaRecorder whose stream has no live track left stops by itself.
RecorderTrackEnded(s) ==
    /\ conns[s].track = "ended"
    /\ conns[s].rec = "recording"
    /\ conns' = [conns EXCEPT ![s].rec = "flushing"]
    /\ UNCHANGED <<ws, wsConnected, mediaStreamRef, pendingMic, chunks,
                   pending, sent>>

----------------------------------------------------------------------------
(* disconnectFromRoom *)

\* The statements of the if-body, each a function of the state the handler
\* has built so far.

\* if (ref.recorder) ref.recorder.stop()  -- stop() throws InvalidStateError
\* on a recorder that is not recording
StopRecorder(st, ref) ==
    IF ref = 0 \/ st.conns[ref].recorder = 0 THEN st
    ELSE LET r == st.conns[ref].recorder
         IN  IF st.conns[r].rec = "recording"
               THEN [st EXCEPT !.conns[r].rec = "flushing",
                               !.ops = Append(@, "recorder.stop")]
               ELSE [st EXCEPT !.thrown = TRUE]

\* ref?.getTracks().forEach((track) => track.stop())
StopTracks(st, ref) ==
    IF st.thrown \/ ref = 0 THEN st
    ELSE [st EXCEPT !.conns[ref].track = "ended",
                    !.ops = Append(@, "track.stop")]

\* ws.close(): starts the closing handshake of a socket that is not yet
\* closing or closed, and never throws
CloseSocket(st, w) ==
    IF st.thrown THEN st
    ELSE [st EXCEPT !.conns[w].readyState =
                        IF @ \in {"CONNECTING", "OPEN"} THEN "CLOSING" ELSE @,
                    !.ops = Append(@, "ws.close")]

\* SetDisconnected without setWs(null)
SetDisconnectedFlagOnly(st) ==
    IF st.thrown THEN st
    ELSE [st EXCEPT !.wsConnected = FALSE, !.ops = Append(@, "setWsConnected(false)")]

\* setWs(null); setWsConnected(false)
SetDisconnected(st) ==
    IF st.thrown THEN st
    ELSE [st EXCEPT !.ws = 0, !.wsConnected = FALSE,
                    !.ops = Append(@, "setWs(null)")]

\* Teardown with ws.close() moved to the top of the if-body
TeardownCloseFirst(st, ref, w) ==
    SetDisconnected(StopTracks(StopRecorder(CloseSocket(st, w), ref), ref))

\* the if-body, in statement order
Teardown(st, ref, w) ==
    SetDisconnected(CloseSocket(StopTracks(StopRecorder(st, ref), ref), w))

\* if (ws) { ... }
Disconnect(st, ref) ==
    IF st.ws # 0 THEN Teardown(st, ref, st.ws) ELSE st

DisconnectFromRoom ==
    LET st == Disconnect(Session, mediaStreamRef)
    IN  /\ conns' = st.conns
        /\ ws' = st.ws
        /\ wsConnected' = st.wsConnected
        /\ UNCHANGED <<mediaStreamRef, pendingMic, chunks, pending, sent>>

----------------------------------------------------------------------------
(* The program *)

Next ==
    \/ \E room \in Rooms : ConnectToRoom(room)
    \/ MicGranted
    \/ MicDenied
    \/ \E s \in Socks : SocketOpen(s)
    \/ \E s \in Socks, data \in Payloads : OnMessage(s, data)
    \/ \E s \in Socks : SocketClose(s)
    \/ \E s \in Socks : SocketFail(s)
    \/ \E s \in Socks, size \in Sizes, sample \in Samples :
          /\ Gate(size, conns[s].readyState) => Len(chunks) < MaxChunks
          /\ ChunkReady(s, size, sample)
    \/ \E c \in pending : ConversionDone(c)
    \/ \E s \in Socks : RecorderTrackEnded(s)
    \/ DisconnectFromRoom

Spec == Init /\ [][Next]_vars

----------------------------------------------------------------------------
(* One session, from the moment its transport has opened until it ends:    *)
(* the state Spec reaches by ConnectToRoom, MicGranted and SocketOpen, and *)
(* from there the listener, the promise continuations and the ways the     *)
(* session ends, with more chunks and more analyser windows than Spec.     *)

TalkInit ==
    /\ ws = 1
    /\ wsConnected = FALSE
    /\ mediaStreamRef = 1
    /\ pendingMic = 0
    /\ conns = OnOpen(<<NewConn>>, 1, 1)
    /\ chunks = <<>>
    /\ pending = {}
    /\ sent = <<>>

\* the steps of the session, with the analyser windows drawn from `samples`
SessionNext(samples) ==
    \/ \E s \in Socks, size \in Sizes, sample \in samples :
          /\ Gate(size, conns[s].readyState) => Len(chunks) < MaxTicks
          /\ ChunkReady(s, size, sample)
    \/ \E c \in pending : ConversionDone(c)
    \/ \E s \in Socks, data \in Payloads : OnMessage(s, data)
    \/ \E s \in Socks : SocketClose(s)
    \/ \E s \in Socks : SocketFail(s)
    \/ DisconnectFromRoom

TalkNext == SessionNext(TalkSamples)

TalkSpec == TalkInit /\ [][TalkNext]_vars

\* The same session with the two windows of Spec (a reading at the threshold
\* and one above it), and the promise continuations run: the continuation of
\* a resolved promise is a microtask.
LiveNext == SessionNext(Samples)

TalkLive ==
    /\ TalkInit
    /\ [][LiveNext]_vars
    /\ WF_vars(\E c \in pending : ConversionDone(c))

----------------------------------------------------------------------------
(* Vocabulary of the properties *)

SentIds == {sent[i] : i \in 1..Len(sent)}

\* how many times chunk c has been passed to socket.send
SendCount(c) == Cardinality({i \in 1..Len(sent) : sent[i] = c})

\* isTalking as the previous reading on the socket of chunk i left it
\* (FALSE, Idle, when chunk i is the first reading of its socket)
PrevTalking(i) ==
    LET before == {j \in 1..(i - 1) : chunks[j].sock = chunks[i].sock}
    IN  IF before = {} THEN FALSE
        ELSE chunks[CHOOSE j \in before : \A k \in before : k <= j].now

\* the streams whose track is live, and the transports that are connecting or
\* open
LiveStreams == {s \in Socks : conns[s].track = "live"}

LiveSockets == {s \in Socks : conns[s].readyState \in {"CONNECTING", "OPEN"}}

\* the room input holds nothing, or white space only
AllSpaces(room) == \A i \in 1..Len(room) : room[i] = " "

Has(ops, x) == \E i \in 1..Len(ops) : ops[i] = x

Pos(ops, x) == CHOOSE i \in 1..Len(ops) : ops[i] = x

\* the handshake confirmation of the room server
HandshakePayload == "{\"type\":\"ws_handshake_status\",\"status\":\"Connected\"}"

----------------------------------------------------------------------------
(* C1 *)

\* C1: a click on Connect while a transport handle is held (the session is
\* Connecting, AwaitingHandshake or Active) changes nothing: it does not ask
\* for the microphone again, opens no transport and leaves the held handles
\* and the connection state as they are.
C1_ConnectRejectedWhileHeld ==
    [][\A room \in Rooms : (ws # 0 /\ ConnectToRoom(room)) => UNCHANGED vars]_vars

----------------------------------------------------------------------------
(* C2 *)

\* C2: every chunk handed on for sending was read while the connection was
\* Active; a chunk read in any other state (AwaitingHandshake above all) is
\* dropped, loud or not.
C2_HandshakeGating ==
    \A i \in 1..Len(chunks) : chunks[i].queued => chunks[i].conn = "Active"

----------------------------------------------------------------------------
(* C3 *)

\* C3: a chunk whose reading is at or below the threshold is never handed to
\* the transport: it is not converted on its tick and is in no later send.
C3_DropWhileIdle ==
    \A i \in 1..Len(chunks) :
        chunks[i].rms <= threshold =>
            /\ ~chunks[i].queued
            /\ i \notin pending
            /\ i \notin SentIds

\* an idle chunk has been dropped and a later, loud chunk has been sent
C3_Witness ==
    \E i, j \in 1..Len(chunks) :
        /\ i < j
        /\ chunks[i].rms <= threshold
        /\ chunks[j].rms > threshold
        /\ j \in SentIds
        /\ i \notin SentIds

----------------------------------------------------------------------------
(* C4 *)

----------------------------------------------------------------------------
(* C5 *)

\* C5: whenever no transport handle is held, every microphone stream that was
\* acquired has had its tracks stopped and no recorder is recording.
C5_NoAudioOutlivesConnection ==
    ws = 0 =>
        \A s \in Socks : conns[s].track = "ended" /\ conns[s].rec # "recording"

----------------------------------------------------------------------------
(* C6 *)

\* C6: from every state, disconnectFromRoom leaves no handle held and the
\* connected flag false, and calling it again right away throws nothing, makes
\* no call (no recorder stop, no track stop, no close) and changes nothing.
C6_IdempotentDisconnect ==
    LET st1 == Disconnect(Session, mediaStreamRef)
        st2 == Disconnect([st1 EXCEPT !.ops = <<>>], mediaStreamRef)
    IN  /\ ~st1.thrown
        /\ st1.ws = 0
        /\ ~st1.wsConnected
        /\ ~st2.thrown
        /\ st2.ops = <<>>
        /\ st2.conns = st1.conns
        /\ st2.ws = 0
        /\ ~st2.wsConnected

\* a session with a running recorder has been disconnected, and another
\* disconnect finds nothing to do
C6_Witness ==
    /\ ws = 0
    /\ \E s \in Socks :
          /\ conns[s].readyState = "CLOSING"
          /\ conns[s].track = "ended"
          /\ conns[s].rec = "flushing"
    /\ Disconnect(Session, mediaStreamRef).ops = <<>>

----------------------------------------------------------------------------
(* C7 *)

\* C7: when the held transport is open and the handshake has not been
\* confirmed, the handshake confirmation makes the session Active.
C7_HandshakeActivates ==
    \A s \in Socks :
        (ws = s /\ conns[s].readyState = "OPEN" /\ ~wsConnected) =>
            HandleMessage(Session, s, HandshakePayload).wsConnected

----------------------------------------------------------------------------
(* C8 *)

\* C8: on every reading, isTalking starts from what the previous reading of
\* the socket left (Idle at first) and ends Talking exactly when the reading
\* is above the threshold; "Talking started" is logged exactly on the ticks
\* that go from Idle to Talking, "Idle (no speech)" exactly on those that go
\* from Talking to Idle, and no tick logs both.
C8_TalkStateTracking ==
    \A i \in 1..Len(chunks) :
        LET c == chunks[i]
        IN  /\ c.was = PrevTalking(i)
            /\ c.now = (c.rms > threshold)
            /\ Has(c.log, "Talking started") = (~c.was /\ c.now)
            /\ Has(c.log, "Idle (no speech)") = (c.was /\ ~c.now)
            /\ ~(Has(c.log, "Talking started") /\ Has(c.log, "Idle (no speech)"))
            /\ Len(c.log) <= 1

\* the readings 5, 15, 20, 3: Idle, Talking, Talking, Idle, one start at the
\* second and one stop at the fourth
C8_Witness ==
    /\ Len(chunks) = 4
    /\ <<chunks[1].rms, chunks[2].rms, chunks[3].rms, chunks[4].rms>> = <<5, 15, 20, 3>>
    /\ <<chunks[1].now, chunks[2].now, chunks[3].now, chunks[4].now>>
          = <<FALSE, TRUE, TRUE, FALSE>>
    /\ chunks[1].log = <<"not talking">>
    /\ chunks[2].log = <<"Talking started">>
    /\ chunks[3].log = <<>>
    /\ chunks[4].log = <<"Idle (no speech)">>

----------------------------------------------------------------------------
(* C9 *)

\* C9: every step in which a transport becomes CLOSED, cleanly or by an
\* error, leaves no handle held and the connected flag false, and starts no
\* reconnect (no microphone request, no new transport); and the connected
\* flag is never set unless the held transport is open.
C9_CloseEndsSession ==
    /\ [][\A s \in Socks :
            (conns[s].readyState # "CLOSED" /\ conns'[s].readyState = "CLOSED") =>
                /\ ws' = 0
                /\ ~wsConnected'
                /\ pendingMic' = pendingMic
                /\ Len(conns') = Len(conns)]_vars
    /\ [](wsConnected => (ws # 0 /\ conns[ws].readyState = "OPEN"))

\* a transport closed under a session nobody disconnected
C9_Witness ==
    /\ ws = 0
    /\ ~wsConnected
    /\ \E s \in Socks : conns[s].readyState = "CLOSED" /\ conns[s].track = "live"

----------------------------------------------------------------------------
(* C10 *)

\* C10: a disconnect of a held session stops the recorder attached to the
\* stream (when there is one), then stops the tracks, then closes the
\* transport, then clears the handle, in this order and without throwing; so
\* recorder and tracks are stopped before close is even called.
C10_DisconnectOrder ==
    ws # 0 =>
        LET st == Disconnect(Session, mediaStreamRef)
            ref == mediaStreamRef
        IN  /\ ~st.thrown
            /\ Has(st.ops, "track.stop")
            /\ Has(st.ops, "ws.close")
            /\ Has(st.ops, "setWs(null)")
            /\ Has(st.ops, "recorder.stop") = (ref # 0 /\ conns[ref].recorder # 0)
            /\ Has(st.ops, "recorder.stop") =>
                  Pos(st.ops, "recorder.stop") < Pos(st.ops, "track.stop")
            /\ Pos(st.ops, "track.stop") < Pos(st.ops, "ws.close")
            /\ Pos(st.ops, "ws.close") < Pos(st.ops, "setWs(null)")
            /\ st.conns[ref].track = "ended"
            /\ st.conns[ref].recorder # 0 =>
                  st.conns[st.conns[ref].recorder].rec # "recording"
            /\ st.conns[ws].readyState \in {"CLOSING", "CLOSED"}
            /\ st.ws = 0

\* an open session whose recorder delivered its last chunk after the disconnect
C10_Witness ==
    /\ ws = 0
    /\ mediaStreamRef # 0
    /\ LET c == conns[mediaStreamRef]
       IN  /\ c.track = "ended"
           /\ c.recorder = mediaStreamRef
           /\ c.rec = "inactive"
           /\ c.readyState = "CLOSING"

----------------------------------------------------------------------------
(* C11 *)

\* C11: once no transport handle is held (the session is Disconnected, by a
\* disconnect above all), no step calls socket.send: a chunk whose
\* arrayBuffer() promise was still unresolved when the handle was dropped is
\* not passed to the transport afterwards.
C11_NoSendAfterDisconnect ==
    [][ws = 0 => sent' = sent]_vars

----------------------------------------------------------------------------
(* C12 *)

\* C12: in every state, a text frame that is not JSON, or is JSON of an
\* unknown type, delivered on any socket, throws nothing, makes no call (no
\* close above all) and leaves the handle, the connected flag and every
\* stream, transport, recorder and isTalking as they were.
C12_MalformedIgnored ==
    \A s \in Socks, data \in Payloads \ {HandshakePayload} :
        LET st == HandleMessage(Session, s, data)
        IN  /\ ~st.thrown
            /\ st.ops = <<>>
            /\ st.ws = ws
            /\ st.wsConnected = wsConnected
            /\ st.conns = conns

\* the held transport is open, its microphone is live and its listener is
\* in Talking: a frame delivered now has all of that to disturb
C12_Witness ==
    \E s \in Socks :
        /\ ws = s
        /\ conns[s].readyState = "OPEN"
        /\ conns[s].track = "live"
        /\ conns[s].rec = "recording"
        /\ conns[s].isTalking
        /\ \A data \in Payloads \ {HandshakePayload} :
              HandleMessage(Session, s, data) = Session

----------------------------------------------------------------------------
(* C13 *)

\* C13: a click on Connect while the room input is empty or holds white
\* space only changes nothing: getUserMedia is not called (no connect becomes
\* suspended on it), no stream and no transport are created, and the handle
\* and the connected flag stay as they are.
C13_BlankRoomRejected ==
    [][\A room \in Rooms :
          (AllSpaces(room) /\ ConnectToRoom(room)) => UNCHANGED vars]_vars

\* a session has come and gone and nothing is in progress: a click with a
\* room name would ask for the microphone, one with a white-space room is
\* turned away by the room check
C13_Witness ==
    /\ ws = 0
    /\ pendingMic = 0
    /\ Len(conns) = 1
    /\ conns[1].track = "ended"
    /\ \E room \in Rooms : Len(room) > 0 /\ AllSpaces(room) /\ RoomIsBlank(room)
    /\ \E room \in Rooms : ~AllSpaces(room) /\ ~RoomIsBlank(room)

----------------------------------------------------------------------------
(* C14 *)

\* C14: a transport is only ever created by the step that resumes a connect
\* suspended on getUserMedia with the stream it was granted (the stream is
\* live and in the ref when the transport is constructed); and the step in
\* which getUserMedia rejects ends that connect with no stream and no
\* transport created and the ref, the handle and the connected flag as they
\* were, so a Disconnected session stays Disconnected.
C14_MicFailureAbortsConnect ==
    /\ [][Len(conns') > Len(conns) =>
            /\ pendingMic > 0
            /\ pendingMic' = pendingMic - 1
            /\ Len(conns') = Len(conns) + 1
            /\ conns'[Len(conns')].track = "live"
            /\ conns'[Len(conns')].readyState = "CONNECTING"
            /\ mediaStreamRef' = Len(conns')]_vars
    /\ [][MicDenied =>
            /\ conns' = conns
            /\ mediaStreamRef' = mediaStreamRef
            /\ ws' = ws
            /\ wsConnected' = wsConnected
            /\ (ws = 0 => ws' = 0)]_vars

\* a connect is suspended on getUserMedia with nothing acquired and no
\* handle held: the state in which a rejection ends it
C14_Witness ==
    /\ pendingMic > 0
    /\ ws = 0
    /\ mediaStreamRef = 0
    /\ conns = <<>>

----------------------------------------------------------------------------
(* C15 *)

\* C15: at every moment at most one microphone stream has a live track and
\* at most one transport is connecting or open, whatever the order of the
\* clicks on Connect and of the getUserMedia results.
C15_SingleMicSingleTransport ==
    /\ Cardinality(LiveStreams) <= 1
    /\ Cardinality(LiveSockets) <= 1

----------------------------------------------------------------------------
(* C16 *)

\* C16: a disconnect called while a connect is in progress undoes it.  Called
\* while the connect is suspended on getUserMedia, the connect, once resumed,
\* leaves no handle held, no live stream and no transport connecting or open
\* of its own; called while the held transport is still connecting, it
\* leaves no handle held, the stream stopped, no recorder, and the transport
\* closing, so that its onopen never runs.
C16_DisconnectDuringConnect ==
    /\ pendingMic > 0 =>
          LET st == Disconnect(Session, mediaStreamRef)
              after == Resume(st.conns, st.ws)
              new == Len(after.conns)
          IN  /\ after.ws = 0
              /\ after.conns[new].track = "ended"
              /\ after.conns[new].readyState \notin {"CONNECTING", "OPEN"}
    /\ (ws # 0 /\ conns[ws].readyState = "CONNECTING") =>
          LET st == Disconnect(Session, mediaStreamRef)
          IN  /\ ~st.thrown
              /\ st.ws = 0
              /\ st.conns[ws].track = "ended"
              /\ st.conns[ws].rec = "none"
              /\ st.conns[ws].readyState = "CLOSING"

----------------------------------------------------------------------------
(* C17 *)

\* C17: the chunks of a socket are passed to socket.send in the order in
\* which the recorder delivered them (chunks are numbered in delivery
\* order): of two sends on one socket, the earlier is of the earlier chunk.
C17_SendsInCaptureOrder ==
    \A i, j \in 1..Len(sent) :
        (i < j /\ chunks[sent[i]].sock = chunks[sent[j]].sock) => sent[i] < sent[j]

----------------------------------------------------------------------------
(* C18 *)

\* C18: a step in which a transport other than the held one becomes CLOSED,
\* while the held one is still connecting or open, leaves the handle and the
\* connected flag as they are: the close event of an older transport does
\* not take away the handle of a newer, live one.
C18_StaleCloseKeepsHandle ==
    [][\A s \in Socks :
          ( /\ conns[s].readyState # "CLOSED"
            /\ conns'[s].readyState = "CLOSED"
            /\ ws # 0
            /\ ws # s
            /\ conns'[ws].readyState \in {"CONNECTING", "OPEN"} ) =>
              /\ ws' = ws
              /\ wsConnected' = wsConnected]_vars

====
